---- MODULE Spec2Model ----
(***************************************************************************)
(* Model of the dendron reference utilities (replaceRefs, parseRef, the    *)
(* workspace cache of dangling references) and of the engine's init.       *)
(* Strings are sequences of one-character strings.                         *)
(***************************************************************************)
EXTENDS Integers, Sequences, FiniteSets, TLC

VARIABLES
    \* replaceRefs: the arguments, the hook counters and the returned value
    content, refs, result, onMatchCount, onReplaceCount, rpc,
    \* the workspace: engine.notes in the order of _.values, the files of the
    \* vault and the open text documents
    notes, files, textDocuments,
    \* workspaceCache
    markdownUris, allUris, danglingRefsByFsPath, danglingRefs,
    \* every call of cacheWorkspace: where it stands, and the value of
    \* findDanglingRefsByFsPath that its cacheRefs awaits
    cpc, refsByFsPath,
    \* per call of cacheWorkspace: the list its cacheUris wrote and the list
    \* its scan read
    began, used,
    \* the vault the engine loads: its note files and its schema module files
    vaultNotes, vaultSchemas,
    \* the engine: its state, the step init stands at, the note files init
    \* has parsed, engine.notes, engine.schemas and the error init returned
    estate, ephase, parsed, enotes, eschemas, initError,
    \* the last write to the Ready engine: its operation, the root id of its
    \* module and the error it returned
    wresult,
    \* one call of parseRef: its argument, the RefT it returns, and its position
    rawRef, refT, ppc

rvars == <<content, refs, result, onMatchCount, onReplaceCount, rpc>>
wvars == <<notes, files, textDocuments>>
cvars == <<markdownUris, allUris, danglingRefsByFsPath, danglingRefs, cpc,
           refsByFsPath, began, used>>
evars == <<vaultNotes, vaultSchemas, estate, ephase, parsed, enotes, eschemas,
           initError, wresult>>
pvars == <<rawRef, refT, ppc>>
vars == <<rvars, wvars, cvars, pvars, evars, pvars>>

-----------------------------------------------------------------------------
(* Characters and strings *)

Min(S) == CHOOSE x \in S : \A y \in S : x <= y
Max(S) == CHOOSE x \in S : \A y \in S : x >= y

\* \s of a JavaScript RegExp and the characters _.trim removes
IsWhitespace(c) == c \in {" ", "\n"}
\* . of a JavaScript RegExp: any character but a line terminator
IsDotChar(c) == c # "\n"

\* String.prototype.toLowerCase, on one character
LowerChar(c) == CASE c = "A" -> "a" [] c = "B" -> "b" [] OTHER -> c
toLowerCase(s) == [k \in 1..Len(s) |-> LowerChar(s[k])]

RECURSIVE TrimLeft(_)
TrimLeft(s) == IF s # <<>> /\ IsWhitespace(Head(s)) THEN TrimLeft(Tail(s)) ELSE s
RECURSIVE TrimRight(_)
TrimRight(s) ==
    IF s # <<>> /\ IsWhitespace(s[Len(s)])
    THEN TrimRight(SubSeq(s, 1, Len(s) - 1)) ELSE s
\* _.trim
Trim(s) == TrimRight(TrimLeft(s))

RECURSIVE Concat(_)
Concat(ss) == IF ss = <<>> THEN <<>> ELSE Head(ss) \o Concat(Tail(ss))

\* the index of the first character at or after j that satisfies no whitespace
\* test, Len(s) + 1 when there is none
RECURSIVE SkipWhitespace(_, _)
SkipWhitespace(s, j) ==
    IF j <= Len(s) /\ IsWhitespace(s[j]) THEN SkipWhitespace(s, j + 1) ELSE j

\* the index of the first line terminator at or after j, Len(s) + 1 when none
RECURSIVE LineEnd(_, _)
LineEnd(s, j) ==
    IF j <= Len(s) /\ IsDotChar(s[j]) THEN LineEnd(s, j + 1) ELSE j

-----------------------------------------------------------------------------
(* replaceRefs *)

\* escapeForRegExp: every character of the value stands for itself in the
\* pattern (an atom is a literal character or, unescaped, the wildcard ".")
MetaChars == {".", "|", "[", "]"}
escapeForRegExpNone(value) ==
    [k \in 1..Len(value) |->
        [lit |-> value[k] \notin MetaChars, ch |-> value[k]]]
escapeForRegExp(value) ==
    [k \in 1..Len(value) |-> [lit |-> TRUE, ch |-> value[k]]]

\* one atom against one character, under the "i" flag
AtomMatches(atom, c) ==
    IF atom.lit THEN LowerChar(atom.ch) = LowerChar(c) ELSE IsDotChar(c)

\* the atoms match s from index j on
AtomsMatchAt(s, j, atoms) ==
    /\ j + Len(atoms) - 1 <= Len(s)
    /\ \A k \in 1..Len(atoms) : AtomMatches(atoms[k], s[j + k - 1])

CloseBrackets == <<[lit |-> TRUE, ch |-> "]"], [lit |-> TRUE, ch |-> "]"]>>

\* the rest of the pattern, \s*<oldRef>\s*\]\], from index j on: the index
\* after the match, 0 when it fails (a greedy \s* never gives a character back
\* here, because no rename name starts with whitespace)
TailEnd(s, j, oldRef) ==
    LET a == SkipWhitespace(s, j)
        c == SkipWhitespace(s, a + Len(oldRef))
    IN  IF AtomsMatchAt(s, a, oldRef) /\ AtomsMatchAt(s, c, CloseBrackets)
        THEN c + 2 ELSE 0

NoMatch == [ok |-> FALSE, end |-> 0, g1 |-> <<>>]

\* one attempt of the pattern at index i with the lazy \s*? taking k characters:
\* the group (.*\|)? is tried first, .* from the longest stretch of the line
\* downwards, and then the pattern without the group
TryAt(s, i, k, oldRef) ==
    LET st == i + 2 + k
        bars == {p \in st..(LineEnd(s, st) - 1) :
                    s[p] = "|" /\ TailEnd(s, p + 1, oldRef) # 0}
    IN  IF bars # {}
        THEN [ok |-> TRUE, end |-> TailEnd(s, Max(bars) + 1, oldRef),
              g1 |-> SubSeq(s, st, Max(bars))]
        ELSE IF TailEnd(s, st, oldRef) # 0
        THEN [ok |-> TRUE, end |-> TailEnd(s, st, oldRef), g1 |-> <<>>]
        ELSE NoMatch

\* the pattern \[\[\s*?(.*\|)?\s*<oldRef>\s*\]\] at index i: the first attempt
\* that succeeds, in the order a backtracking matcher makes them
MatchAt(s, i, oldRef) ==
    IF ~(i + 1 <= Len(s) /\ s[i] = "[" /\ s[i + 1] = "[") THEN NoMatch
    ELSE LET ks == {k \in 0..(SkipWhitespace(s, i + 2) - (i + 2)) :
                        TryAt(s, i, k, oldRef).ok}
         IN  IF ks = {} THEN NoMatch ELSE TryAt(s, i, Min(ks), oldRef)

\* new RegExp(pattern, "i").exec(content)
PatternExec(s, oldRef) == \E i \in 1..Len(s) : MatchAt(s, i, oldRef).ok

\* the replacer callback: `[[${_.trim($1) || ""}${ref.new}]]`
Replacement(g1, new) == <<"[", "[">> \o Trim(g1) \o new \o <<"]", "]">>

\* content.replace(new RegExp(pattern, "gi"), replacer), from index i on
RECURSIVE ReplaceFrom(_, _, _, _)
ReplaceFrom(s, i, oldRef, new) ==
    IF i > Len(s) THEN <<>>
    ELSE LET m == MatchAt(s, i, oldRef)
         IN  IF m.ok
             THEN Replacement(m.g1, new) \o ReplaceFrom(s, m.end, oldRef, new)
             ELSE <<s[i]>> \o ReplaceFrom(s, i + 1, oldRef, new)

\* the number of times the replacer callback runs
RECURSIVE CountFrom(_, _, _)
CountFrom(s, i, oldRef) ==
    IF i > Len(s) THEN 0
    ELSE LET m == MatchAt(s, i, oldRef)
         IN  IF m.ok THEN 1 + CountFrom(s, m.end, oldRef)
             ELSE CountFrom(s, i + 1, oldRef)

\* the reducer with a pair whose old and new are equal skipped
ReduceStepSkipNoOp(acc, ref, c) ==
    LET oldRef == escapeForRegExp(ref.old)
    IN  IF ref.old # ref.new /\ PatternExec(c, oldRef)
        THEN [updatedOnce |-> TRUE,
              nextContent |-> ReplaceFrom(c, 1, oldRef, ref.new),
              matches |-> acc.matches + 1,
              replaces |-> acc.replaces + CountFrom(c, 1, oldRef)]
        ELSE acc

\* the reducer of replaceRefs, on one rename pair
ReduceStep(acc, ref, c) ==
    LET oldRef == escapeForRegExp(ref.old)
    IN  IF PatternExec(c, oldRef)
        THEN [updatedOnce |-> TRUE,
              nextContent |-> ReplaceFrom(c, 1, oldRef, ref.new),
              matches |-> acc.matches + 1,
              replaces |-> acc.replaces + CountFrom(c, 1, oldRef)]
        ELSE acc

\* refs.reduce(reducer, { updatedOnce: false, nextContent: content })
RECURSIVE Reduce(_, _, _)
Reduce(rs, acc, c) ==
    IF rs = <<>> THEN acc ELSE Reduce(Tail(rs), ReduceStep(acc, Head(rs), c), c)

ReduceInit(c) ==
    [updatedOnce |-> FALSE, nextContent |-> c, matches |-> 0, replaces |-> 0]

\* the value replaceRefs returns: a string, or null
Null == [isNull |-> TRUE, str |-> <<>>]
Str(s) == [isNull |-> FALSE, str |-> s]
ReturnValue(acc) == IF acc.updatedOnce THEN Str(acc.nextContent) ELSE Null

-----------------------------------------------------------------------------
(* Link tokens and parseRef *)

IsBracket(c) == c \in {"[", "]"}

\* the index of the first bracket at or after j, Len(s) + 1 when there is none
RECURSIVE BracketAt(_, _)
BracketAt(s, j) ==
    IF j <= Len(s) /\ ~IsBracket(s[j]) THEN BracketAt(s, j + 1) ELSE j

\* refPattern, (\[\[)([^\[\]]+?)(\]\]), at index i: the index after the match,
\* 0 when it fails
RefPatternAt(s, i) ==
    IF ~(i + 1 <= Len(s) /\ s[i] = "[" /\ s[i + 1] = "[") THEN 0
    ELSE LET j == BracketAt(s, i + 2)
         IN  IF j > i + 2 /\ j + 1 <= Len(s) /\ s[j] = "]" /\ s[j + 1] = "]"
             THEN j + 2 ELSE 0

\* matchAll(refRegexp, text): the second capture of every match, in order
RECURSIVE matchAllFrom(_, _)
matchAllFrom(s, i) ==
    IF i > Len(s) THEN <<>>
    ELSE LET e == RefPatternAt(s, i)
         IN  IF e # 0 THEN <<SubSeq(s, i + 2, e - 3)>> \o matchAllFrom(s, e)
             ELSE matchAllFrom(s, i + 1)
matchAll(text) == matchAllFrom(text, 1)

\* rawRef.indexOf("|"), 1-based; 0 when there is no divider
RECURSIVE IndexOfFrom(_, _, _)
IndexOfFrom(s, c, j) ==
    IF j > Len(s) THEN 0 ELSE IF s[j] = c THEN j ELSE IndexOfFrom(s, c, j + 1)
indexOf(s, c) == IndexOfFrom(s, c, 1)

\* the token is split at its last divider
parseRefLastDivider(raw) ==
    LET dividers == {j \in 1..Len(raw) : raw[j] = "|"}
        dividerPosition == IF dividers = {} THEN 0 ELSE Max(dividers)
    IN  IF dividerPosition = 0
        THEN [ref |-> Trim(raw), label |-> Trim(raw)]
        ELSE [ref |-> Trim(SubSeq(raw, dividerPosition + 1, Len(raw))),
              label |-> Trim(SubSeq(raw, 1, dividerPosition - 1))]

parseRef(raw) ==
    LET dividerPosition == indexOf(raw, "|")
    IN  IF dividerPosition = 0
        THEN [ref |-> Trim(raw), label |-> Trim(raw)]
        ELSE [ref |-> Trim(SubSeq(raw, dividerPosition + 1, Len(raw))),
              label |-> Trim(SubSeq(raw, 1, dividerPosition - 1))]

\* content.split(/\r?\n/g)
RECURSIVE splitLines(_)
splitLines(s) ==
    LET e == LineEnd(s, 1)
    IN  IF e > Len(s) THEN <<s>>
        ELSE <<SubSeq(s, 1, e - 1)>> \o splitLines(SubSeq(s, e + 1, Len(s)))

\* the raw link tokens of a content, line by line, as extractDanglingRefs
\* reads them
RECURSIVE TokensOfLines(_)
TokensOfLines(ls) ==
    IF ls = <<>> THEN <<>> ELSE matchAll(Head(ls)) \o TokensOfLines(Tail(ls))
LinkTokens(s) == TokensOfLines(splitLines(s))

-----------------------------------------------------------------------------
(* Paths *)

RECURSIVE LastIndexOfFrom(_, _, _)
LastIndexOfFrom(s, c, j) ==
    IF j = 0 THEN 0 ELSE IF s[j] = c THEN j ELSE LastIndexOfFrom(s, c, j - 1)
lastIndexOf(s, c) == LastIndexOfFrom(s, c, Len(s))

\* path.basename
basename(fsPath) == SubSeq(fsPath, lastIndexOf(fsPath, "/") + 1, Len(fsPath))

\* path.parse(p).ext: from the last "." of the base name on, unless the base
\* name has none or starts with it
PathExt(fsPath) ==
    LET base == basename(fsPath)
        dot == lastIndexOf(base, ".")
    IN  IF dot <= 1 THEN <<>> ELSE SubSeq(base, dot, Len(base))

\* path.parse(p).name: the base name without its extension
PathName(fsPath) ==
    LET base == basename(fsPath)
    IN  SubSeq(base, 1, Len(base) - Len(PathExt(fsPath)))

\* containsMarkdownExt: /\.md$/i on the extension
containsMarkdownExt(pathParam) ==
    toLowerCase(PathExt(pathParam)) = <<".", "m", "d">>

\* Uri.joinPath(root.uri, name)
joinPath(rootPath, name) == rootPath \o <<"/">> \o name

\* the segments of a path
RECURSIVE Segments(_)
Segments(path) ==
    LET cut == indexOf(path, "/")
    IN  IF path = <<>> THEN <<>>
        ELSE IF cut = 0 THEN <<path>>
        ELSE IF cut = 1 THEN Segments(Tail(path))
        ELSE <<SubSeq(path, 1, cut - 1)>>
                \o Segments(SubSeq(path, cut + 1, Len(path)))

\* the order of the characters in a comparison of two segments
CharOrder ==
    <<" ", ".", "/", "|", "a", "A", "b", "B", "c", "d", "m", "o", "q", "r", "t",
      "v", "x", "y">>
CharRank(c) == CHOOSE i \in 1..Len(CharOrder) : CharOrder[i] = c

RECURSIVE SegmentLess(_, _)
SegmentLess(a, b) ==
    IF b = <<>> THEN FALSE
    ELSE IF a = <<>> THEN TRUE
    ELSE IF Head(a) # Head(b) THEN CharRank(Head(a)) < CharRank(Head(b))
    ELSE SegmentLess(Tail(a), Tail(b))

RECURSIVE SegmentsLess(_, _)
SegmentsLess(a, b) ==
    IF b = <<>> THEN FALSE
    ELSE IF a = <<>> THEN TRUE
    ELSE IF Head(a) # Head(b) THEN SegmentLess(Head(a), Head(b))
    ELSE SegmentsLess(Tail(a), Tail(b))

\* the comparison of sortPaths with shallowFirst: the path of fewer segments
\* first, paths of as many segments in the order of their segments
PathBefore(p, q) ==
    \/ Len(Segments(p)) < Len(Segments(q))
    \/ Len(Segments(p)) = Len(Segments(q)) /\ SegmentsLess(Segments(p), Segments(q))

RECURSIVE InsertSorted(_, _)
InsertSorted(x, sorted) ==
    IF sorted = <<>> THEN <<x>>
    ELSE IF PathBefore(x, Head(sorted)) THEN <<x>> \o sorted
    ELSE <<Head(sorted)>> \o InsertSorted(x, Tail(sorted))

RECURSIVE SortFrom(_, _)
SortFrom(paths, sorted) ==
    IF paths = <<>> THEN sorted
    ELSE SortFrom(Tail(paths), InsertSorted(Head(paths), sorted))

\* sortPaths left out: the array as it was given
sortPathsNone(paths) == paths
\* sortPaths(paths, { shallowFirst: true }), a stable sort
sortPaths(paths) == SortFrom(paths, <<>>)

-----------------------------------------------------------------------------
(* The workspace cache *)

\* Array.from(new Set(xs)): the first occurrence of every element, in order
RECURSIVE UniqueFrom(_, _)
UniqueFrom(xs, seen) ==
    IF xs = <<>> THEN <<>>
    ELSE IF Head(xs) \in seen THEN UniqueFrom(Tail(xs), seen)
    ELSE <<Head(xs)>> \o UniqueFrom(Tail(xs), seen \cup {Head(xs)})
\* every element kept, repeated or not
UniqueNone(xs) == xs
Unique(xs) == UniqueFrom(xs, {})

Range(xs) == {xs[k] : k \in 1..Len(xs)}

\* findUriByRef comparing the name and the reference as they are written
findUriByRefExact(uris, ref) ==
    \E k \in 1..Len(uris) :
        /\ containsMarkdownExt(basename(uris[k]))
        /\ PathName(uris[k]) = ref

\* findUriByRef(uris, ref) finds a uri
findUriByRef(uris, ref) ==
    \E k \in 1..Len(uris) :
        /\ containsMarkdownExt(basename(uris[k]))
        /\ toLowerCase(PathName(uris[k])) = toLowerCase(ref)

\* the references of the link tokens of one line that resolve to no uri
RECURSIVE DanglingOf(_, _)
DanglingOf(tokens, uriCache) ==
    IF tokens = <<>> THEN <<>>
    ELSE LET ref == parseRef(Head(tokens)).ref
         IN  (IF findUriByRef(uriCache, ref) THEN <<>> ELSE <<ref>>)
                \o DanglingOf(Tail(tokens), uriCache)

\* extractDanglingRefs(content), reading getWorkspaceCache().allUris
extractDanglingRefs(text, uriCache) == Unique(DanglingOf(LinkTokens(text), uriCache))

\* refsByFsPath[fsPath] = refs on an object that keeps its keys in the order
\* of their first assignment
RECURSIVE PutEntry(_, _, _)
PutEntry(entries, fsPath, rs) ==
    IF entries = <<>> THEN <<[fsPath |-> fsPath, refs |-> rs]>>
    ELSE IF Head(entries).fsPath = fsPath
    THEN <<[fsPath |-> fsPath, refs |-> rs]>> \o Tail(entries)
    ELSE <<Head(entries)>> \o PutEntry(Tail(entries), fsPath, rs)

\* fs.existsSync, fs.lstatSync(p).isDirectory(), fs.readFileSync(p).toString()
existsSync(fs, fsPath) == fsPath \in DOMAIN fs /\ fs[fsPath].kind # "none"
isDirectory(fs, fsPath) == fs[fsPath].kind = "dir"
readFileSync(fs, fsPath) == fs[fsPath].text

\* doc ? doc.getText() : fs.readFileSync(fsPath).toString()
TextOf(fs, docs, fsPath) ==
    IF \E doc \in docs : doc.fsPath = fsPath
    THEN (CHOOSE doc \in docs : doc.fsPath = fsPath).text
    ELSE readFileSync(fs, fsPath)

\* the test of findDanglingRefsByFsPath for leaving a path out
SkipsPath(fs, fsPath) ==
    \/ ~existsSync(fs, fsPath)
    \/ ~containsMarkdownExt(fsPath)
    \/ existsSync(fs, fsPath) /\ isDirectory(fs, fsPath)

\* the loop of findDanglingRefsByFsPath over uris
RECURSIVE ScanFrom(_, _, _, _, _)
ScanFrom(uris, entries, fs, docs, uriCache) ==
    IF uris = <<>> THEN entries
    ELSE IF SkipsPath(fs, Head(uris))
    THEN ScanFrom(Tail(uris), entries, fs, docs, uriCache)
    ELSE LET rs == extractDanglingRefs(TextOf(fs, docs, Head(uris)), uriCache)
         IN  ScanFrom(Tail(uris),
                      IF rs # <<>> THEN PutEntry(entries, Head(uris), rs)
                      ELSE entries,
                      fs, docs, uriCache)

\* Object.values(danglingRefsByFsPath).flatMap((refs) => refs)
RECURSIVE FlatRefs(_)
FlatRefs(entries) ==
    IF entries = <<>> THEN <<>> ELSE Head(entries).refs \o FlatRefs(Tail(entries))

RootDir == <<"/", "v">>
MdExt == <<".", "m", "d">>

\* the uris of every note, stubs included
NoteUrisWithStubs(ns) ==
    [k \in 1..Len(ns) |-> joinPath(RootDir, ns[k].fname \o MdExt)]

\* the uris cacheUris builds, in the order of _.values(engine.notes)
NoteUris(ns) ==
    LET real == SelectSeq(ns, LAMBDA n : ~n.stub)
    IN  [k \in 1..Len(real) |-> joinPath(RootDir, real[k].fname \o MdExt)]

\* cacheUris, called by cacheWorkspace
cacheUrisUnsorted(p) ==
    /\ cpc[p] = "idle"
    /\ markdownUris' = NoteUris(notes)
    /\ allUris' = NoteUris(notes)
    /\ began' = [began EXCEPT ![p] = NoteUris(notes)]
    /\ cpc' = [cpc EXCEPT ![p] = "cacheRefs"]
    /\ UNCHANGED <<rvars, wvars, evars, pvars, danglingRefsByFsPath, danglingRefs,
                   refsByFsPath, used>>
cacheUris(p) ==
    /\ cpc[p] = "idle"
    /\ markdownUris' = sortPaths(NoteUris(notes))
    /\ allUris' = sortPaths(NoteUris(notes))
    /\ began' = [began EXCEPT ![p] = sortPaths(NoteUris(notes))]
    /\ cpc' = [cpc EXCEPT ![p] = "cacheRefs"]
    /\ UNCHANGED <<rvars, wvars, evars, pvars, danglingRefsByFsPath, danglingRefs,
                   refsByFsPath, used>>

\* cacheRefs started together with cacheUris, not after it
findDanglingRefsByFsPathEarly(p) ==
    /\ cpc[p] \in {"idle", "cacheRefs"}
    /\ refsByFsPath' = [refsByFsPath EXCEPT
            ![p] = ScanFrom(markdownUris, <<>>, files, textDocuments, allUris)]
    /\ used' = [used EXCEPT ![p] = markdownUris]
    /\ cpc' = [cpc EXCEPT ![p] = "await"]
    /\ UNCHANGED <<rvars, wvars, evars, pvars, markdownUris, allUris,
                   danglingRefsByFsPath, danglingRefs, began>>

\* cacheRefs up to its await: findDanglingRefsByFsPath(workspaceCache.markdownUris)
findDanglingRefsByFsPath(p) ==
    /\ cpc[p] = "cacheRefs"
    /\ refsByFsPath' = [refsByFsPath EXCEPT
            ![p] = ScanFrom(markdownUris, <<>>, files, textDocuments, allUris)]
    /\ used' = [used EXCEPT ![p] = markdownUris]
    /\ cpc' = [cpc EXCEPT ![p] = "await"]
    /\ UNCHANGED <<rvars, wvars, evars, pvars, markdownUris, allUris,
                   danglingRefsByFsPath, danglingRefs, began>>

\* cacheRefs after its await: the two assignments to workspaceCache
cacheRefs(p) ==
    /\ cpc[p] = "await"
    /\ danglingRefsByFsPath' = refsByFsPath[p]
    /\ danglingRefs' = sortPaths(Unique(FlatRefs(refsByFsPath[p])))
    /\ cpc' = [cpc EXCEPT ![p] = "done"]
    /\ UNCHANGED <<rvars, wvars, evars, pvars, markdownUris, allUris, refsByFsPath,
                   began, used>>

-----------------------------------------------------------------------------
(* The workspaces the cache is computed for *)

MaxFiles == 2

Calls == {1}

RootName == <<"r", "o", "o", "t">>
\* the notes a vault may hold besides root
CandidateNames == { <<"a">>, <<"B">>, <<"a", ".", "b">> }

\* the bodies of the note files: a file whose references all resolve when
\* a.md is there, and one that holds some that never do, one of them twice
FileTexts ==
    { <<"[", "[", "A", "]", "]", " ", "[", "[", "a", "]", "]">>,
      <<"[", "[", "d", "]", "]", " ", "[", "[", "b", "]", "]",
        "[", "[", "a", ".", "b", "]", "]", "\n",
        "[", "[", "x", "|", "c", "]", "]", "[", "[", "c", "]", "]">> }
\* the text of an open document
DocTexts == { <<"[", "[", " ", "c", " ", "]", "]", "[", "[", "B", "]", "]">> }

\* the shorter dot-delimited prefixes of a hierarchical name
Ancestors(fname) ==
    {SubSeq(fname, 1, k - 1) : k \in {j \in 1..Len(fname) : fname[j] = "."}}

\* engine.notes of a vault whose files are those of the names in reals: a note
\* for every file, and a stub for every ancestor without one
EngineNotes(reals) ==
    {[fname |-> f, stub |-> FALSE] : f \in reals}
        \cup {[fname |-> f, stub |-> TRUE] :
                f \in (UNION {Ancestors(g) : g \in reals}) \ reals}

Orderings(S) ==
    {f \in [1..Cardinality(S) -> S] : \A i, j \in DOMAIN f : f[i] = f[j] => i = j}

FsPathOf(fname) == joinPath(RootDir, fname \o MdExt)

\* what sets one path apart: nothing, a file that is gone, a directory of that
\* name, or an open document, whose text is not the text on disk
Quirks(paths) ==
    {[kind |-> "none", fsPath |-> <<>>, text |-> <<>>]}
        \cup [kind : {"gone", "dir"}, fsPath : paths, text : {<<>>}]
        \cup [kind : {"doc"}, fsPath : paths, text : DocTexts]

\* no call of parseRef
ParseIdle ==
    /\ rawRef = <<>>
    /\ refT = [ref |-> <<>>, label |-> <<>>]
    /\ ppc = "idle"

\* no write has been made
NoWrite == [op |-> "none", root |-> "none", error |-> "none"]

\* the engine before init, and in the specifications that do not run it
EngineIdle ==
    /\ estate = "Uninitialized"
    /\ ephase = "none"
    /\ parsed = {}
    /\ enotes = {}
    /\ eschemas = {}
    /\ initError = "none"
    /\ wresult = NoWrite

VaultNone ==
    /\ vaultNotes = {}
    /\ vaultSchemas = {}

RewriteIdle ==
    /\ content = <<>>
    /\ refs = <<>>
    /\ result = Null
    /\ onMatchCount = 0
    /\ onReplaceCount = 0
    /\ rpc = "idle"

\* const workspaceCache = { markdownUris: [], allUris: [], ... }, and the
\* calls of cacheWorkspace not yet made
CacheEmptyFor(calls) ==
    /\ markdownUris = <<>>
    /\ allUris = <<>>
    /\ danglingRefsByFsPath = <<>>
    /\ danglingRefs = <<>>
    /\ cpc = [p \in calls |-> "idle"]
    /\ refsByFsPath = [p \in calls |-> <<>>]
    /\ began = [p \in calls |-> <<>>]
    /\ used = [p \in calls |-> <<>>]

CacheEmpty == CacheEmptyFor(Calls)

WorkspaceNone ==
    /\ notes = <<>>
    /\ files = <<>>
    /\ textDocuments = {}

CacheInit ==
    /\ RewriteIdle
    /\ CacheEmpty
    /\ EngineIdle
    /\ VaultNone
    /\ ParseIdle
    /\ \E names \in SUBSET CandidateNames :
        /\ Cardinality(names) <= MaxFiles
        /\ LET reals == {RootName} \cup names
               paths == {FsPathOf(f) : f \in reals}
           IN  /\ notes \in Orderings(EngineNotes(reals))
               /\ \E texts \in [paths -> FileTexts], quirk \in Quirks(paths) :
                    /\ files = [q \in paths |->
                            [kind |-> IF quirk.fsPath = q /\ quirk.kind \in {"gone", "dir"}
                                      THEN (IF quirk.kind = "gone" THEN "none" ELSE "dir")
                                      ELSE "file",
                             text |-> texts[q]]]
                    /\ textDocuments =
                            IF quirk.kind = "doc"
                            THEN {[fsPath |-> quirk.fsPath, text |-> quirk.text]}
                            ELSE {}

CacheNext == \E p \in Calls :
    \/ cacheUris(p)
    \/ findDanglingRefsByFsPath(p)
    \/ cacheRefs(p)

SpecCache == CacheInit /\ [][CacheNext]_vars

-----------------------------------------------------------------------------
(* Two calls of cacheWorkspace, and notes written between their steps *)

TwoCalls == {1, 2}

\* the body of every note file: references that dangle until their note is
\* written
RefreshText ==
    <<"[", "[", "d", "]", "]", " ", "[", "[", "b", "]", "]",
      "[", "[", "a", ".", "b", "]", "]", "\n",
      "[", "[", "x", "|", "c", "]", "]", "[", "[", "c", "]", "]">>

RefreshInit ==
    /\ RewriteIdle
    /\ EngineIdle
    /\ VaultNone
    /\ ParseIdle
    /\ CacheEmptyFor(TwoCalls)
    /\ notes = <<[fname |-> RootName, stub |-> FALSE]>>
    /\ textDocuments = {}
    /\ \E names \in SUBSET CandidateNames :
        /\ Cardinality(names) <= MaxFiles
        /\ files = [q \in {FsPathOf(f) : f \in {RootName} \cup names} |->
                        [kind |-> "file", text |-> RefreshText]]

\* a note is written for a file of the vault: engine.notes gets the note, in
\* the place of its stub when it had one, and a stub for every ancestor
\* without a note
writeNote(f) ==
    /\ FsPathOf(f) \in DOMAIN files
    /\ ~\E k \in 1..Len(notes) : notes[k].fname = f /\ ~notes[k].stub
    /\ LET kept == SelectSeq(notes, LAMBDA n : n.fname # f)
           have == {kept[k].fname : k \in 1..Len(kept)} \cup {f}
           missing == Ancestors(f) \ have
           stubs == CHOOSE o \in Orderings({[fname |-> a, stub |-> TRUE] : a \in missing}) : TRUE
       IN  notes' = Append(kept, [fname |-> f, stub |-> FALSE]) \o stubs
    /\ UNCHANGED <<rvars, files, textDocuments, cvars, evars, pvars>>

RefreshNext ==
    \/ \E p \in TwoCalls : cacheUris(p)
    \/ \E p \in TwoCalls : findDanglingRefsByFsPath(p)
    \/ \E p \in TwoCalls : cacheRefs(p)
    \/ \E f \in CandidateNames : writeNote(f)

SpecRefresh == RefreshInit /\ [][RefreshNext]_vars

-----------------------------------------------------------------------------
(* The engine: init *)

MaxNoteFiles == 3

FooName == <<"f", "o", "o">>
Ch1Name == <<"f", "o", "o", ".", "c", "h", "1">>
GchName == <<"f", "o", "o", ".", "c", "h", "1", ".", "g">>
\* the hierarchical names a vault may hold a note file for
VaultNames == {RootName, FooName, Ch1Name, GchName}

\* the vaults: at most one file for a name, each with a header that parses
\* or does not
NoteFiles == [fname : VaultNames, ok : BOOLEAN]
Vaults ==
    {v \in SUBSET NoteFiles :
        /\ Cardinality(v) <= MaxNoteFiles
        /\ \A f, g \in v : f.fname = g.fname => f = g}

\* the schema modules, by the id of their root schema, with their schemas
SchemaModules ==
    { [root |-> "root", schemas |-> {"root"}],
      [root |-> "foo", schemas |-> {"foo", "ch1"}] }

EngineInit ==
    /\ RewriteIdle
    /\ WorkspaceNone
    /\ CacheEmpty
    /\ EngineIdle
    /\ ParseIdle
    /\ vaultNotes \in Vaults
    /\ vaultSchemas \in SUBSET SchemaModules

\* init is called: Uninitialized -> Loading
init ==
    /\ estate = "Uninitialized"
    /\ estate' = "Loading"
    /\ ephase' = "notes"
    /\ UNCHANGED <<rvars, wvars, cvars, pvars, vaultNotes, vaultSchemas, parsed, enotes,
                   eschemas, initError, wresult>>

\* a note file whose header does not parse is skipped, and init goes on
parseNoteSkipBad(f) ==
    /\ estate = "Loading"
    /\ ephase = "notes"
    /\ f \in vaultNotes \ parsed
    /\ parsed' = parsed \cup {f}
    /\ enotes' = IF f.ok THEN enotes \cup {[fname |-> f.fname, stub |-> FALSE]}
                         ELSE enotes
    /\ UNCHANGED <<estate, ephase, initError>>
    /\ UNCHANGED <<rvars, wvars, cvars, pvars, vaultNotes, vaultSchemas, eschemas,
                   wresult>>

\* the Store Adapter reads one more note file: the note is loaded, or its
\* header does not parse and init fails with BAD_PARSE_FOR_NOTE
parseNote(f) ==
    /\ estate = "Loading"
    /\ ephase = "notes"
    /\ f \in vaultNotes \ parsed
    /\ IF f.ok
       THEN /\ parsed' = parsed \cup {f}
            /\ enotes' = enotes \cup {[fname |-> f.fname, stub |-> FALSE]}
            /\ UNCHANGED <<estate, ephase, initError>>
       ELSE /\ estate' = "Failed"
            /\ ephase' = "none"
            /\ initError' = "BAD_PARSE_FOR_NOTE"
            /\ UNCHANGED <<parsed, enotes>>
    /\ UNCHANGED <<rvars, wvars, cvars, pvars, vaultNotes, vaultSchemas, eschemas,
                   wresult>>

\* the parent of a hierarchical name, when it has one
ParentOf(fname) ==
    {a \in Ancestors(fname) : \A b \in Ancestors(fname) : Len(b) <= Len(a)}

\* stubs for the missing parents only, not for the ancestors above them
StubsForParent(loadedNotes) ==
    {[fname |-> a, stub |-> TRUE] :
        a \in (UNION {ParentOf(n.fname) : n \in loadedNotes})
                \ {n.fname : n \in loadedNotes}}

\* the stubs the Hierarchy Builder adds to the loaded notes: one for every
\* ancestor without a note
StubsFor(loadedNotes) ==
    {[fname |-> a, stub |-> TRUE] :
        a \in (UNION {Ancestors(n.fname) : n \in loadedNotes})
                \ {n.fname : n \in loadedNotes}}

\* the root check left out: any set of notes passes
HasRootNoteUnchecked(loadedNotes) == TRUE

\* a file maps to the hierarchical name root
HasRootNote(loadedNotes) == \E n \in loadedNotes : n.fname = RootName /\ ~n.stub

\* the Hierarchy Builder, once every note file is loaded: NO_ROOT_NOTE_FOUND
\* when no file maps to root, the stubs otherwise
buildHierarchy ==
    /\ estate = "Loading"
    /\ ephase = "notes"
    /\ parsed = vaultNotes
    /\ IF HasRootNote(enotes)
       THEN /\ enotes' = enotes \cup StubsFor(enotes)
            /\ ephase' = "schemas"
            /\ UNCHANGED <<estate, initError>>
       ELSE /\ estate' = "Failed"
            /\ ephase' = "none"
            /\ initError' = "NO_ROOT_NOTE_FOUND"
            /\ UNCHANGED enotes
    /\ UNCHANGED <<rvars, wvars, cvars, pvars, vaultNotes, vaultSchemas, parsed, eschemas,
                   wresult>>

\* the root schema check left out: any set of modules passes
HasRootSchemaUnchecked(modules) == TRUE

\* a schema module designates a root schema
HasRootSchema(modules) == \E m \in modules : m.root = "root"

\* the Schema Engine: NO_SCHEMA_FOUND when no module designates a root schema,
\* the modules otherwise, and init returns: Loading -> Ready
loadSchemas ==
    /\ estate = "Loading"
    /\ ephase = "schemas"
    /\ IF HasRootSchema(vaultSchemas)
       THEN /\ eschemas' = vaultSchemas
            /\ estate' = "Ready"
            /\ UNCHANGED initError
       ELSE /\ estate' = "Failed"
            /\ initError' = "NO_SCHEMA_FOUND"
            /\ UNCHANGED eschemas
    /\ ephase' = "none"
    /\ UNCHANGED <<rvars, wvars, cvars, pvars, vaultNotes, vaultSchemas, parsed, enotes,
                   wresult>>

\* the modules a caller writes: root id foo or bar, with the root schema and
\* some of its children
WriteModules ==
    {[root |-> r, schemas |-> {r} \cup c] :
        r \in {"foo", "bar"}, c \in SUBSET {"ch1", "ch2"}}

ModuleRoots(modules) == {x.root : x \in modules}

\* the new module alone is kept
InsertModuleOnly(modules, m) == {m}

\* the schema-module set with one more entry
InsertModule(modules, m) == modules \cup {m}

\* the module is added beside the entry it should replace
ReplaceModuleAppend(modules, m) == modules \cup {m}

\* the schema-module set with the entry of m's root id replaced by m
ReplaceModule(modules, m) == {x \in modules : x.root # m.root} \cup {m}

\* writeSchema(m) from Ready: persist the new module and insert it, or reject
\* the write when a module with that root id exists
writeSchema(m) ==
    /\ estate = "Ready"
    /\ IF m.root \in ModuleRoots(eschemas)
       THEN /\ wresult' = [op |-> "writeSchema", root |-> m.root,
                           error |-> "DUPLICATE_MODULE_ROOT"]
            /\ UNCHANGED <<vaultSchemas, eschemas>>
       ELSE /\ vaultSchemas' = InsertModule(vaultSchemas, m)
            /\ eschemas' = InsertModule(eschemas, m)
            /\ wresult' = [op |-> "writeSchema", root |-> m.root,
                           error |-> "none"]
    /\ UNCHANGED <<rvars, wvars, cvars, pvars, vaultNotes, estate, ephase, parsed, enotes,
                   initError>>

\* updateSchema(m) from Ready, for a module whose root id is in the set:
\* persist it and replace the entry in place
updateSchema(m) ==
    /\ estate = "Ready"
    /\ m.root \in ModuleRoots(eschemas)
    /\ vaultSchemas' = ReplaceModule(vaultSchemas, m)
    /\ eschemas' = ReplaceModule(eschemas, m)
    /\ wresult' = [op |-> "updateSchema", root |-> m.root, error |-> "none"]
    /\ UNCHANGED <<rvars, wvars, cvars, pvars, vaultNotes, estate, ephase, parsed, enotes,
                   initError>>

EngineNext ==
    \/ init
    \/ \E f \in NoteFiles : parseNote(f)
    \/ buildHierarchy
    \/ loadSchemas
    \/ \E m \in WriteModules : writeSchema(m)
    \/ \E m \in WriteModules : updateSchema(m)

SpecEngine == EngineInit /\ [][EngineNext]_vars

-----------------------------------------------------------------------------
(* The inputs of replaceRefs *)

MaxItems == 2
MaxPairs == 2

\* the pieces a note body is made of: link tokens with and without a label,
\* with whitespace, in another letter case, with two dividers, and plain text
Items ==
    { <<"[", "[", "a", "]", "]">>,
      <<"[", "[", "x", "|", "a", "]", "]">>,
      <<"[", "[", " ", "A", " ", "]", "]">>,
      <<"[", "[", "b", "]", "]">>,
      <<"[", "[", "x", "|", "y", "|", "a", "]", "]">>,
      <<"[", "[", " ", "q", "]", "]">>,
      <<"\n">>,
      <<"x", " ">> }

\* the names a rename pair holds
OldNames == { <<"a">>, <<"b">> }
NewNames == { <<"a">>, <<"c">> }
RenamePairs == [old : OldNames, new : NewNames]

SeqsUpTo(S, n) == UNION {[1..k -> S] : k \in 0..n}

Contents == {Concat(items) : items \in SeqsUpTo(Items, MaxItems)}
Batches == SeqsUpTo(RenamePairs, MaxPairs)

RewriteInit ==
    /\ content \in Contents
    /\ refs \in Batches
    /\ result = Null
    /\ onMatchCount = 0
    /\ onReplaceCount = 0
    /\ rpc = "call"
    /\ WorkspaceNone
    /\ CacheEmpty
    /\ EngineIdle
    /\ VaultNone
    /\ ParseIdle

\* replaceRefs({ refs, content, onMatch, onReplace })
replaceRefs ==
    /\ rpc = "call"
    /\ LET acc == Reduce(refs, ReduceInit(content), content)
       IN  /\ result' = ReturnValue(acc)
           /\ onMatchCount' = acc.matches
           /\ onReplaceCount' = acc.replaces
    /\ rpc' = "returned"
    /\ UNCHANGED <<content, refs, wvars, cvars, evars, pvars>>

RewriteNext == replaceRefs

SpecRewrite == RewriteInit /\ [][RewriteNext]_vars

-----------------------------------------------------------------------------
(* One call of parseRef *)

MaxTokenLen == 4

\* the characters of a raw token: letters, whitespace and the divider
TokenChars == {"a", "B", " ", "|"}
RawTokens == SeqsUpTo(TokenChars, MaxTokenLen)

ParseInit ==
    /\ RewriteIdle
    /\ WorkspaceNone
    /\ CacheEmpty
    /\ EngineIdle
    /\ VaultNone
    /\ rawRef \in RawTokens
    /\ refT = [ref |-> <<>>, label |-> <<>>]
    /\ ppc = "call"

parseRefCall ==
    /\ ppc = "call"
    /\ refT' = parseRef(rawRef)
    /\ ppc' = "returned"
    /\ UNCHANGED <<rvars, wvars, cvars, evars, rawRef>>

ParseNext == parseRefCall

SpecParse == ParseInit /\ [][ParseNext]_vars

-----------------------------------------------------------------------------
(* Properties of replaceRefs *)

EqualsIgnoreCase(s, t) == toLowerCase(s) = toLowerCase(t)

\* the content holds a link token whose parsed reference is name
HasLinkTokenTo(s, name) ==
    \E k \in 1..Len(LinkTokens(s)) :
        EqualsIgnoreCase(parseRef(LinkTokens(s)[k]).ref, name)

\* the replacements of every pair applied one after the other, each to the
\* content the pair before it produced
RECURSIVE ApplyInOrder(_, _)
ApplyInOrder(rs, c) ==
    IF rs = <<>> THEN c
    ELSE ApplyInOrder(Tail(rs),
            ReplaceFrom(c, 1, escapeForRegExp(Head(rs).old), Head(rs).new))

\* C1: when replaceRefs returns a string, it is the content with the
\* replacements of every pair of the batch applied, in the order of the batch.
C1_AllPairsApplied ==
    (rpc = "returned" /\ ~result.isNull) => result.str = ApplyInOrder(refs, content)

\* every link token of the content is of the form [[display|Old]]
OnlyLabelledTokensTo(s, old) ==
    /\ LinkTokens(s) # <<>>
    /\ \A k \in 1..Len(LinkTokens(s)) :
        /\ indexOf(LinkTokens(s)[k], "|") # 0
        /\ EqualsIgnoreCase(parseRef(LinkTokens(s)[k]).ref, old)

\* C2: for a content whose link tokens are all [[display|Old]] and the rename
\* Old -> New, the result is a string with as many link tokens, each with the
\* label it had and the reference New, and no link token references Old.
C2_LabelPreserved ==
    (/\ rpc = "returned"
     /\ Len(refs) = 1
     /\ ~EqualsIgnoreCase(refs[1].old, refs[1].new)
     /\ OnlyLabelledTokensTo(content, refs[1].old))
    => /\ ~result.isNull
       /\ ~HasLinkTokenTo(result.str, refs[1].old)
       /\ Len(LinkTokens(result.str)) = Len(LinkTokens(content))
       /\ \A k \in 1..Len(LinkTokens(content)) :
            parseRef(LinkTokens(result.str)[k]) =
                [ref |-> refs[1].new,
                 label |-> parseRef(LinkTokens(content)[k]).label]

IsNoOpBatch == Len(refs) = 1 /\ refs[1].old = refs[1].new

\* C3 as stated: a batch whose only pair has old = new returns null, whatever
\* the content.
C3_NoOpReturnsNull ==
    (rpc = "returned" /\ IsNoOpBatch) => result.isNull

\* C3 amended: a batch whose only pair has old = new = X returns a string
\* whenever the content holds a link token to X, and null whenever the pattern
\* of X matches nowhere in the content.
C3_NoOpReturnsNullOnlyWithoutMatch ==
    (rpc = "returned" /\ IsNoOpBatch) =>
        /\ HasLinkTokenTo(content, refs[1].old) => ~result.isNull
        /\ ~PatternExec(content, escapeForRegExp(refs[1].old)) => result.isNull

C3_Witness ==
    /\ rpc = "returned"
    /\ IsNoOpBatch
    /\ HasLinkTokenTo(content, refs[1].old)
    /\ ~result.isNull

\* C4: when no pair's old is the reference of a link token of the content,
\* replaceRefs returns null.
C4_NoMatchReturnsNull ==
    (/\ rpc = "returned"
     /\ \A k \in 1..Len(refs) : ~HasLinkTokenTo(content, refs[k].old))
    => result.isNull

-----------------------------------------------------------------------------
(* Properties of the workspace cache *)

Refreshed == cpc[1] = "done"

\* the names of the notes that have a file, and of the stubs
KnownNames == {n.fname : n \in {m \in Range(notes) : ~m.stub}}
StubNames == {n.fname : n \in {m \in Range(notes) : m.stub}}

\* the note files a refresh scans
ScannedPaths == {q \in {FsPathOf(f) : f \in KnownNames} : ~SkipsPath(files, q)}

\* the references of the link tokens of a scanned file
RefsIn(q) ==
    {parseRef(tok).ref : tok \in Range(LinkTokens(TextOf(files, textDocuments, q)))}

\* the dangling list the cache holds for a path, as a set
DanglingListOf(q) ==
    UNION {Range(e.refs) : e \in {d \in Range(danglingRefsByFsPath) : d.fsPath = q}}

Resolves(x) == \E f \in KnownNames : EqualsIgnoreCase(f, x)

\* C5: after a refresh, the reference of every link token of every scanned
\* file is in the file's dangling list and in the global list when no note
\* with a file has that name, letter case set aside, and in neither otherwise.
C5_DanglingIffNoNote ==
    Refreshed =>
        \A q \in ScannedPaths : \A x \in RefsIn(q) :
            IF Resolves(x)
            THEN x \notin DanglingListOf(q) /\ x \notin Range(danglingRefs)
            ELSE x \in DanglingListOf(q) /\ x \in Range(danglingRefs)

\* a reference that differs from a note's name by letter case alone resolves,
\* and another one dangles
C5_Witness ==
    /\ Refreshed
    /\ \E q \in ScannedPaths : \E x, y \in RefsIn(q) :
        /\ x \notin KnownNames /\ Resolves(x) /\ x \notin Range(danglingRefs)
        /\ ~Resolves(y) /\ y \in DanglingListOf(q) /\ y \in Range(danglingRefs)

\* C6 as stated: after a refresh, a reference that equals the name of a stub
\* is in no dangling list.
C6_StubIsKnown ==
    Refreshed =>
        \A q \in ScannedPaths : \A x \in RefsIn(q) :
            x \in StubNames => x \notin DanglingListOf(q) /\ x \notin Range(danglingRefs)

\* C6 amended: after a refresh, a reference that equals the name of a stub,
\* letter case set aside, and the name of no note with a file is in the
\* dangling list of every scanned file that holds it and in the global list.
C6_StubDangles ==
    Refreshed =>
        \A q \in ScannedPaths : \A x \in RefsIn(q) :
            ((\E f \in StubNames : EqualsIgnoreCase(f, x)) /\ ~Resolves(x))
                => x \in DanglingListOf(q) /\ x \in Range(danglingRefs)

C6_Witness ==
    /\ Refreshed
    /\ \E q \in ScannedPaths : \E x \in RefsIn(q) :
        x \in StubNames /\ x \in DanglingListOf(q) /\ x \in Range(danglingRefs)

NoDuplicates(xs) == \A i, j \in 1..Len(xs) : xs[i] = xs[j] => i = j

\* C7: after a refresh, the global dangling list holds exactly the references
\* of the per-file lists, each once, and every per-file list holds each of its
\* references once.
C7_GlobalIsUnion ==
    Refreshed =>
        /\ Range(danglingRefs) = UNION {Range(e.refs) : e \in Range(danglingRefsByFsPath)}
        /\ NoDuplicates(danglingRefs)
        /\ \A e \in Range(danglingRefsByFsPath) : NoDuplicates(e.refs)
        /\ NoDuplicates([k \in 1..Len(danglingRefsByFsPath) |-> danglingRefsByFsPath[k].fsPath])

\* the number of link tokens of a text whose reference is x
Occurrences(text, x) ==
    Cardinality({k \in 1..Len(LinkTokens(text)) : parseRef(LinkTokens(text)[k]).ref = x})

\* one dangling reference is in the lists of two files, and twice in one file
C7_Witness ==
    /\ Refreshed
    /\ \E x \in Range(danglingRefs) :
        /\ \E e, d \in Range(danglingRefsByFsPath) :
            e.fsPath # d.fsPath /\ x \in Range(e.refs) /\ x \in Range(d.refs)
        /\ \E q \in ScannedPaths : Occurrences(TextOf(files, textDocuments, q), x) >= 2

\* the per-file map and the global list a refresh computes from the notes in
\* the order ns
RefreshOf(ns) ==
    LET uris == sortPaths(NoteUris(ns))
        entries == ScanFrom(uris, <<>>, files, textDocuments, uris)
    IN  [map |-> Range(entries), list |-> sortPaths(Unique(FlatRefs(entries)))]

\* one order of the notes of the workspace, the same for every order they are in
OneOrder == CHOOSE ns \in Orderings(Range(notes)) : TRUE

\* C8: after a refresh, the per-file map and the global list are those of a
\* refresh of the same notes in one fixed order, so the same for every order
\* of the notes, the list element for element.
C8_OrderIndependent ==
    Refreshed =>
        LET expected == RefreshOf(OneOrder)
        IN  /\ Range(danglingRefsByFsPath) = expected.map
            /\ danglingRefs = expected.list

\* the notes are in an order that is not the order of their sorted paths, and
\* two files hold dangling references
C8_Witness ==
    /\ Refreshed
    /\ notes # OneOrder
    /\ NoteUris(notes) # markdownUris
    /\ Len(danglingRefsByFsPath) >= 2
    /\ Len(danglingRefs) >= 2

\* the number of separators of a path
Depth(path) == Cardinality({k \in 1..Len(path) : path[k] = "/"})

ShallowFirst(uris) ==
    \A i, j \in 1..Len(uris) :
        i < j => /\ Depth(uris[i]) <= Depth(uris[j])
                 /\ PathBefore(uris[i], uris[j])

-----------------------------------------------------------------------------
(* Properties of init *)

InitReturned == estate \in {"Ready", "Failed"}
NoRootFile == ~\E f \in vaultNotes : f.fname = RootName
EveryNoteParses == \A f \in vaultNotes : f.ok

NoRootSchema == ~\E m \in vaultSchemas : m.root = "root"

C12_BadParseAborts ==
    /\ ~EveryNoteParses => estate # "Ready"
    /\ (InitReturned /\ ~EveryNoteParses)
            => (estate = "Failed" /\ initError = "BAD_PARSE_FOR_NOTE")
    /\ initError = "BAD_PARSE_FOR_NOTE"
            => /\ estate = "Failed"
               /\ ephase = "none"
               /\ eschemas = {}
               /\ \E f \in vaultNotes \ parsed : ~f.ok
               /\ enotes = {[fname |-> f.fname, stub |-> FALSE] : f \in parsed}

\* init failed on an unparsable file after it had loaded another note
C12_Witness ==
    /\ estate = "Failed"
    /\ initError = "BAD_PARSE_FOR_NOTE"
    /\ enotes # {}
    /\ \E f \in vaultNotes : ~f.ok

FileNames == {f.fname : f \in vaultNotes}
NoteNames == {n.fname : n \in enotes}

\* C13: after a successful init the notes have no gaps and no superfluous
\* stubs: every ancestor of a note is a note, the stubs are exactly the
\* ancestors without a file, the notes of files are not stubs, and no name has
\* two notes.
C13_NoGapsNoSuperfluousStubs ==
    estate = "Ready" =>
        /\ \A n \in enotes : Ancestors(n.fname) \subseteq NoteNames
        /\ {n.fname : n \in {x \in enotes : x.stub}}
                = (UNION {Ancestors(f) : f \in FileNames}) \ FileNames
        /\ {n.fname : n \in {x \in enotes : ~x.stub}} = FileNames
        /\ Cardinality(enotes) = Cardinality(NoteNames)
        /\ (FileNames = {RootName, Ch1Name}
                => /\ Cardinality(enotes) = 3
                   /\ [fname |-> FooName, stub |-> TRUE] \in enotes)
        /\ (FileNames = {RootName, FooName, Ch1Name}
                => /\ Cardinality(enotes) = 3
                   /\ \A n \in enotes : ~n.stub)

\* init succeeded on a vault with root and a note two levels below a missing
\* parent: two stubs
C13_Witness ==
    /\ estate = "Ready"
    /\ FileNames = {RootName, GchName}
    /\ Cardinality({n \in enotes : n.stub}) = 2

ModuleOf(modules, r) == {x \in modules : x.root = r}

\* C14: from Ready, writeSchema(m) for a module whose root id is not in the
\* schema-module set keeps the engine Ready, adds exactly the entry m, which
\* holds the schemas of m, and leaves every other module as it was.
C14_WriteSchemaAddsOne ==
    [][\A m \in WriteModules :
        (writeSchema(m) /\ m.root \notin ModuleRoots(eschemas))
            => /\ estate' = "Ready"
               /\ wresult'.error = "none"
               /\ Cardinality(eschemas') = Cardinality(eschemas) + 1
               /\ ModuleOf(eschemas', m.root) = {m}
               /\ \A r \in ModuleRoots(eschemas) :
                    ModuleOf(eschemas', r) = ModuleOf(eschemas, r)
               /\ ModuleRoots(eschemas') = ModuleRoots(eschemas) \cup {m.root}]_vars

\* writeSchema has added bar to an engine that had root and foo with two
\* schemas: three modules, two schemas each in foo and bar
C14_Witness ==
    /\ estate = "Ready"
    /\ wresult = [op |-> "writeSchema", root |-> "bar", error |-> "none"]
    /\ eschemas = { [root |-> "root", schemas |-> {"root"}],
                    [root |-> "foo", schemas |-> {"foo", "ch1"}],
                    [root |-> "bar", schemas |-> {"bar", "ch1"}] }

\* C15: from Ready, updateSchema(m) for a module whose root id is in the
\* schema-module set replaces that entry by m: the number of modules is the
\* same, the entry holds the schemas of m and every other module is as it was.
C15_UpdateSchemaReplaces ==
    [][\A m \in WriteModules :
        (updateSchema(m) /\ m.root \in ModuleRoots(eschemas))
            => /\ estate' = "Ready"
               /\ Cardinality(eschemas') = Cardinality(eschemas)
               /\ ModuleRoots(eschemas') = ModuleRoots(eschemas)
               /\ ModuleOf(eschemas', m.root) = {m}
               /\ \A r \in ModuleRoots(eschemas) \ {m.root} :
                    ModuleOf(eschemas', r) = ModuleOf(eschemas, r)]_vars

\* updateSchema has given foo a third schema
C15_Witness ==
    /\ estate = "Ready"
    /\ wresult = [op |-> "updateSchema", root |-> "foo", error |-> "none"]
    /\ eschemas = { [root |-> "root", schemas |-> {"root"}],
                    [root |-> "foo", schemas |-> {"foo", "ch1", "ch2"}] }

-----------------------------------------------------------------------------
(* Properties of parseRef *)

\* t is s without the whitespace at its two ends
IsTrimOf(t, s) ==
    /\ (t # <<>> => ~IsWhitespace(t[1]) /\ ~IsWhitespace(t[Len(t)]))
    /\ \E i \in 0..Len(s) :
        /\ i + Len(t) <= Len(s)
        /\ t = SubSeq(s, i + 1, i + Len(t))
        /\ \A j \in (1..i) \cup ((i + Len(t) + 1)..Len(s)) : IsWhitespace(s[j])

\* C16: parseRef splits once at the first "|": without a divider ref and
\* label are the trimmed token; with one or more, label is the trimmed text
\* before the first and ref the trimmed text after it, later dividers included.
C16_ParseRefSplitsAtFirstDivider ==
    ppc = "returned" =>
        IF \A j \in 1..Len(rawRef) : rawRef[j] # "|"
        THEN /\ IsTrimOf(refT.ref, rawRef)
             /\ refT.label = refT.ref
        ELSE \E k \in 1..Len(rawRef) :
                /\ rawRef[k] = "|"
                /\ \A j \in 1..(k - 1) : rawRef[j] # "|"
                /\ IsTrimOf(refT.label, SubSeq(rawRef, 1, k - 1))
                /\ IsTrimOf(refT.ref, SubSeq(rawRef, k + 1, Len(rawRef)))

\* a token with two dividers has been parsed: the second one is in ref
C16_Witness ==
    /\ ppc = "returned"
    /\ rawRef = <<"a", "|", "B", "|">>
    /\ refT = [ref |-> <<"B", "|">>, label |-> <<"a">>]

-----------------------------------------------------------------------------
(* Properties of the hooks of replaceRefs *)

\* the pairs of the batch whose pattern matches in the content
MatchingPairs == {k \in 1..Len(refs) : PatternExec(content, escapeForRegExp(refs[k].old))}

\* the link tokens of the content that are not the same in the returned string
RewrittenTokens ==
    {k \in 1..Len(LinkTokens(content)) :
        \/ k > Len(LinkTokens(result.str))
        \/ LinkTokens(result.str)[k] # LinkTokens(content)[k]}

RenamesOnly == \A k \in 1..Len(refs) : ~EqualsIgnoreCase(refs[k].old, refs[k].new)

\* C17: in one call of replaceRefs with pairs that rename, onMatch runs once
\* for every pair that matches and for no other, and onReplace runs as many
\* times as there are link tokens rewritten in the content the call returns.
C17_HooksCountRewrites ==
    (rpc = "returned" /\ RenamesOnly) =>
        /\ onMatchCount = Cardinality(MatchingPairs)
        /\ result.isNull => onReplaceCount = 0
        /\ ~result.isNull => onReplaceCount = Cardinality(RewrittenTokens)

-----------------------------------------------------------------------------
(* Properties of interleaved refreshes *)

\* the calls whose cacheUris has completed
Started == {p \in DOMAIN cpc : cpc[p] # "idle"}
\* the calls whose scan has completed
Scanned == {p \in DOMAIN cpc : cpc[p] \in {"await", "done"}}

\* C18: in every call the phases follow one another: the scan of cacheRefs
\* runs after the call's cacheUris, and the two lists are assigned after the
\* scan; the scan of a call reads the list written by its own cacheUris or by
\* a cacheUris that ran later, never an earlier one, and the lists a call
\* assigns are those of its scan, the global one their sorted union.
C18_PhasesOrdered ==
    /\ [](\A p \in Scanned :
            \E q \in Started :
                /\ used[p] = began[q]
                /\ Len(began[q]) >= Len(began[p])
                /\ began[p] # <<>>)
    /\ [][\A p \in DOMAIN cpc :
            /\ cpc'[p] # cpc[p] =>
                    <<cpc[p], cpc'[p]>> \in {<<"idle", "cacheRefs">>,
                                            <<"cacheRefs", "await">>,
                                            <<"await", "done">>}
            /\ (cpc[p] = "cacheRefs" /\ cpc'[p] = "await")
                    => refsByFsPath'[p] =
                        ScanFrom(began[CHOOSE q \in Started : used'[p] = began[q]],
                                 <<>>, files, textDocuments,
                                 began[CHOOSE q \in Started : used'[p] = began[q]])
            /\ (cpc[p] = "await" /\ cpc'[p] = "done")
                    => /\ danglingRefsByFsPath' = refsByFsPath[p]
                       /\ Range(danglingRefs') =
                            UNION {Range(refsByFsPath[p][k].refs) :
                                    k \in 1..Len(refsByFsPath[p])}]_vars

\* two calls interleaved around a write: the first call's scan read the list
\* of the second call's cacheUris, and the first call finished last
C18_Witness ==
    /\ cpc[1] = "done"
    /\ cpc[2] = "done"
    /\ began[1] # began[2]
    /\ used[1] = began[2]
    /\ danglingRefsByFsPath = refsByFsPath[1]
    /\ refsByFsPath[1] # <<>>

-----------------------------------------------------------------------------
(* Properties of replaceRefs on single tokens and on what it leaves alone *)

\* the content is one link token, and the batch one pair that renames
OneTokenOnePair ==
    /\ rpc = "returned"
    /\ Len(refs) = 1
    /\ RenamesOnly
    /\ Len(LinkTokens(content)) = 1
    /\ content = <<"[", "[">> \o LinkTokens(content)[1] \o <<"]", "]">>

\* C19: replaceRefs rewrites a link token [[T]] for the pair {old, new} exactly
\* when parseRef(T).ref equals old case-insensitively, and the token it writes
\* has the reference new and, when T has a divider, the label parseRef(T).label.
C19_SameReferenceAsParseRef ==
    OneTokenOnePair =>
        LET T == LinkTokens(content)[1]
        IN  /\ ~result.isNull <=> EqualsIgnoreCase(parseRef(T).ref, refs[1].old)
            /\ ~result.isNull =>
                /\ Len(LinkTokens(result.str)) = 1
                /\ parseRef(LinkTokens(result.str)[1]).ref = refs[1].new
                /\ indexOf(T, "|") # 0 =>
                    parseRef(LinkTokens(result.str)[1]).label = parseRef(T).label

\* the content with every link token replaced by a mark
RECURSIVE OutsideFrom(_, _)
OutsideFrom(s, i) ==
    IF i > Len(s) THEN <<>>
    ELSE LET e == RefPatternAt(s, i)
         IN  IF e # 0 THEN <<"#">> \o OutsideFrom(s, e)
             ELSE <<s[i]>> \o OutsideFrom(s, i + 1)
Outside(s) == OutsideFrom(s, 1)

\* the reference of the token is the old of a pair of the batch
IsRenamed(T) ==
    \E k \in 1..Len(refs) : EqualsIgnoreCase(parseRef(T).ref, refs[k].old)

\* C20: when replaceRefs returns a string, the text outside the link tokens is
\* the text of the content, and every link token whose reference is not the
\* old of a pair is in the result as it was in the content.
C20_OnlyRenamedTokensChange ==
    (rpc = "returned" /\ ~result.isNull) =>
        /\ Outside(result.str) = Outside(content)
        /\ Len(LinkTokens(result.str)) = Len(LinkTokens(content))
        /\ \A k \in 1..Len(LinkTokens(content)) :
            ~IsRenamed(LinkTokens(content)[k])
                => LinkTokens(result.str)[k] = LinkTokens(content)[k]

====
